---- MODULE Spec2Model ----
(***************************************************************************)
(* Model of the BLE OTA uploader of src/index.tsx: the React component     *)
(* App with its handlers connect, runOta, handleAck and the disconnect     *)
(* listener.  Every await of runOta is a point where another handler can   *)
(* run, so every await is a value of pc; the code between two awaits runs   *)
(* to completion and is one step.                                          *)
(***************************************************************************)
EXTENDS Integers, Sequences, FiniteSets, TLC

\* ---- bounds of the exploration ----
MaxSessions == 2      \* runOta invocations explored
SmallLen == 41        \* a short image: one sector, a few packets
BigLen == 4097        \* an image of two sectors
MaxStatus == 1        \* acknowledgement status codes explored: 0..MaxStatus

\* ---- program constants ----
SECTOR_SIZE == 4096
FAST_PSIZE == 244
SAFE_PSIZE == 20
ACK_TYPE == 3
CMD_START == 1
CMD_FINISH == 2
SENTINEL == 255

NoFile == -1
ImageSizes == {0, SmallLen, BigLen}
Sessions == 1..MaxSessions
Statuses == 0..MaxStatus

VARIABLES
  connStatus,    \* useState connStatus: "idle" | "busy" | "ready"
  otaStatus,     \* useState otaStatus: "idle" | "running" | "success" | "failed"
  progress,      \* useState progress
  fastMode,      \* useState fastMode
  file,          \* useState file: NoFile or the image's length in bytes
  bleSet,        \* ble.current # null
  ackResolvers,  \* ackResolvers.current: key -> the session whose wait registered the resolver
  nSessions,     \* number of runOta invocations that passed the precondition
  pc,            \* per invocation: the await it is suspended at
  sFile,         \* per invocation: file.size / raw.length of the captured file
  sFast,         \* per invocation: the fastMode captured by the closure
  sIdx,          \* per invocation: loop variable s
  pIdx,          \* per invocation: loop variable p
  log,           \* per invocation: what it has done, in order
  answered       \* the <<invocation, key>> requests the remote has answered
                 \* (kept only where the remote answers requests, else empty)

\* the variables of the program
cvars == <<connStatus, otaStatus, progress, fastMode, file, bleSet, ackResolvers,
           nSessions, pc, sFile, sFast, sIdx, pIdx, log>>

vars == <<cvars, answered>>

\* ---- pure helpers ----
Min(a, b) == IF a < b THEN a ELSE b

\* Math.ceil(a / b) for a >= 0, b > 0
CeilDiv(a, b) == (a + b - 1) \div b

\* variant of TotalS: the sector count rounded down
TotalSFloor(len) == len \div SECTOR_SIZE

\* Math.ceil(raw.length / SECTOR_SIZE)
TotalS(len) == CeilDiv(len, SECTOR_SIZE)

\* variant of PSize: the payload size follows the current fastMode
PSizeLive(fast) == IF fastMode THEN FAST_PSIZE ELSE SAFE_PSIZE

\* fastMode ? 244 : 20
PSize(fast) == IF fast THEN FAST_PSIZE ELSE SAFE_PSIZE

\* raw.slice(s * SECTOR_SIZE, (s + 1) * SECTOR_SIZE): the byte range [lo, hi)
SectorLo(len, s) == Min(s * SECTOR_SIZE, len)
SectorHi(len, s) == Min((s + 1) * SECTOR_SIZE, len)
SectorLen(len, s) == SectorHi(len, s) - SectorLo(len, s)

\* Math.ceil(sData.length / pSize)
Pkts(len, fast, s) == CeilDiv(SectorLen(len, s), PSize(fast))

\* Math.round(((s + 1) / totalS) * 100), rounding half up
ProgressOf(s, totalS) == (200 * (s + 1) + totalS) \div (2 * totalS)

\* keys of ackResolvers: `cmd_${n}` and `sector_${n}`
CmdKey(n) == <<"cmd", n>>
SectorKey(n) == <<"sector", n>>

\* ---- entries of a session's log ----
Ev(e, k, n, q, lo, hi) == [ev |-> e, key |-> k, n |-> n, seq |-> q, lo |-> lo, hi |-> hi]
EvCmd(op) == Ev("cmd", "cmd", op, 0, 0, 0)                   \* cmdChar.writeValueWithResponse called
EvReg(key) == Ev("reg", key[1], key[2], 0, 0, 0)             \* ackResolvers.current[key] assigned
EvAck(key, st) == Ev("ack", key[1], key[2], st, 0, 0)        \* the wait on key resolved with st
EvTimeout(key) == Ev("timeout", key[1], key[2], 0, 0, 0)     \* the wait on key rejected
EvThrow == Ev("throw", "-", 0, 0, 0, 0)                      \* an awaited write or read rejected
EvSet(st) == Ev("set", st, 0, 0, 0, 0)                       \* setOtaStatus('success' | 'failed')
EvProgress(v) == Ev("progress", "-", v, 0, 0, 0)             \* setProgress(v)

\* variant of EvPkt: the terminal test is off by one, so no packet is marked
EvPktNoSentinel(len, fast, s, p) ==
  LET base == SectorLo(len, s)
      slen == SectorLen(len, s)
  IN Ev("pkt", "data", s % 65536,
        IF p = Pkts(len, fast, s) THEN SENTINEL ELSE p % 256,
        base + Min(p * PSize(fast), slen),
        base + Min((p + 1) * PSize(fast), slen))

\* the packet built in the inner loop for sector s, packet p, and its write
EvPkt(len, fast, s, p) ==
  LET base == SectorLo(len, s)
      slen == SectorLen(len, s)
  IN Ev("pkt", "data", s % 65536,
        IF p = Pkts(len, fast, s) - 1 THEN SENTINEL ELSE p % 256,
        base + Min(p * PSize(fast), slen),
        base + Min((p + 1) * PSize(fast), slen))

WaitPcs == {"waitStart", "waitSector", "waitFinish"}
WritePcs == {"writeStart", "writePkt", "writeFinish"}

\* the key the wait of session i is registered under
WaitKey(i) ==
  CASE pc[i] = "waitStart" -> CmdKey(CMD_START)
    [] pc[i] = "waitSector" -> SectorKey(sIdx[i])
    [] pc[i] = "waitFinish" -> CmdKey(CMD_FINISH)
    [] OTHER -> <<"-", 0>>

\* variant of TimerArmed: the timer is not cleared and still fires on an
\* invocation that has ended
TimerArmedNoClear(i) == pc[i] \in WaitPcs \cup {"done"}

\* the promise of wait() of session i is still pending: the timer is armed
\* and the resolver has not been called
TimerArmed(i) == pc[i] \in WaitPcs

Running(i) == pc[i] \notin {"none", "done"}

Init ==
  /\ connStatus = "idle"
  /\ otaStatus = "idle"
  /\ progress = 0
  /\ fastMode \in BOOLEAN
  /\ file = NoFile
  /\ bleSet = FALSE
  /\ ackResolvers = <<>>
  /\ nSessions = 0
  /\ pc = [i \in Sessions |-> "none"]
  /\ sFile = [i \in Sessions |-> 0]
  /\ sFast = [i \in Sessions |-> FALSE]
  /\ sIdx = [i \in Sessions |-> 0]
  /\ pIdx = [i \in Sessions |-> 0]
  /\ log = [i \in Sessions |-> <<>>]
  /\ answered = {}

\* session i moves to newpc with loop variables s, p and appends evs to its log
Sess(i, newpc, s, p, evs) ==
  /\ pc' = [pc EXCEPT ![i] = newpc]
  /\ sIdx' = [sIdx EXCEPT ![i] = s]
  /\ pIdx' = [pIdx EXCEPT ![i] = p]
  /\ log' = [log EXCEPT ![i] = @ \o evs]

\* ackResolvers.current[key] = resolver of session i
Register(key, i) ==
  [k \in DOMAIN ackResolvers \cup {key} |-> IF k = key THEN i ELSE ackResolvers[k]]

\* variant of Catch: the handler sends the finish command after failing
CatchThenFinish(i, evs) ==
  /\ Sess(i, "done", sIdx[i], pIdx[i], evs \o <<EvSet("failed"), EvCmd(CMD_FINISH)>>)
  /\ otaStatus' = "failed"
  /\ UNCHANGED <<connStatus, progress, fastMode, file, bleSet, ackResolvers, nSessions, sFile, sFast>>

\* the catch block of runOta
Catch(i, evs) ==
  /\ Sess(i, "done", sIdx[i], pIdx[i], evs \o <<EvSet("failed")>>)
  /\ otaStatus' = "failed"
  /\ UNCHANGED <<connStatus, progress, fastMode, file, bleSet, ackResolvers, nSessions, sFile, sFast>>

\* a further runOta can still start within the bound: the file and the mode
\* are read by runOta only, so changes of them are explored while this holds
MoreRuns == nSessions < MaxSessions

\* ---- user interface ----
\* file input onChange, disabled while otaStatus is running
SelectFile(len) ==
  /\ MoreRuns
  /\ otaStatus # "running"
  /\ file' = len
  /\ UNCHANGED <<connStatus, otaStatus, progress, fastMode, bleSet, ackResolvers,
                 nSessions, pc, sFile, sFast, sIdx, pIdx, log, answered>>

\* Fast MTU Mode toggle
ToggleFast ==
  /\ MoreRuns
  /\ fastMode' = ~fastMode
  /\ UNCHANGED <<connStatus, otaStatus, progress, file, bleSet, ackResolvers,
                 nSessions, pc, sFile, sFast, sIdx, pIdx, log, answered>>

\* ---- connect ----
\* the pair button: shown unless connStatus is ready, disabled while running
ConnectStart ==
  /\ connStatus # "ready"
  /\ otaStatus # "running"
  /\ connStatus' = "busy"
  /\ UNCHANGED <<otaStatus, progress, fastMode, file, bleSet, ackResolvers,
                 nSessions, pc, sFile, sFast, sIdx, pIdx, log, answered>>

ConnectOk ==
  /\ connStatus = "busy"
  /\ connStatus' = "ready"
  /\ bleSet' = TRUE
  /\ UNCHANGED <<otaStatus, progress, fastMode, file, ackResolvers,
                 nSessions, pc, sFile, sFast, sIdx, pIdx, log, answered>>

ConnectFail ==
  /\ connStatus = "busy"
  /\ connStatus' = "idle"
  /\ UNCHANGED <<otaStatus, progress, fastMode, file, bleSet, ackResolvers,
                 nSessions, pc, sFile, sFast, sIdx, pIdx, log, answered>>

\* the gattserverdisconnected listener
Disconnect ==
  /\ connStatus = "ready"
  /\ connStatus' = "idle"
  /\ otaStatus' = "idle"
  /\ UNCHANGED <<progress, fastMode, file, bleSet, ackResolvers,
                 nSessions, pc, sFile, sFast, sIdx, pIdx, log, answered>>

\* ---- runOta ----
\* the Deploy Firmware button and runOta up to its first await
ButtonEnabled == file # NoFile /\ connStatus = "ready" /\ otaStatus # "running"

StartOta ==
  /\ ButtonEnabled
  /\ file # NoFile /\ bleSet
  /\ MoreRuns
  /\ fastMode \/ file <= SmallLen
  /\ LET i == nSessions + 1 IN
       /\ nSessions' = i
       /\ otaStatus' = "running"
       /\ progress' = 0
       /\ sFile' = [sFile EXCEPT ![i] = file]
       /\ sFast' = [sFast EXCEPT ![i] = fastMode]
       /\ Sess(i, "writeStart", 0, 0, <<EvCmd(CMD_START)>>)
  /\ UNCHANGED <<connStatus, fastMode, file, bleSet, ackResolvers, answered>>

\* variant of StartAccepted: the status of the start acknowledgement is ignored
StartAcceptedAny(st) == st >= 0

\* `if (await wait('cmd_1') !== 0) throw`: the start command was accepted
StartAccepted(st) == st = 0

\* variant of SectorAccepted: the status of a sector acknowledgement is ignored
SectorAcceptedAny(st) == st >= 0

\* `if (await wait(`sector_${s}`) !== 0) throw`: the sector was accepted
SectorAccepted(st) == st = 0

\* cmdChar.writeValueWithResponse(startBuf) resolved: wait('cmd_1') registers
WriteStartDone(i) ==
  /\ pc[i] = "writeStart"
  /\ ackResolvers' = Register(CmdKey(CMD_START), i)
  /\ Sess(i, "waitStart", 0, 0, <<EvReg(CmdKey(CMD_START))>>)
  /\ UNCHANGED <<connStatus, otaStatus, progress, fastMode, file, bleSet, nSessions, sFile, sFast,
                 answered>>

\* variant of Advance: the inner loop ends one packet early
AdvanceSkipLast(i) ==
  IF pIdx[i] + 2 < Pkts(sFile[i], sFast[i], sIdx[i])
  THEN /\ Sess(i, "writePkt", sIdx[i], pIdx[i] + 1,
               <<EvPkt(sFile[i], sFast[i], sIdx[i], pIdx[i] + 1)>>)
       /\ UNCHANGED ackResolvers
  ELSE /\ ackResolvers' = Register(SectorKey(sIdx[i]), i)
       /\ Sess(i, "waitSector", sIdx[i], pIdx[i], <<EvReg(SectorKey(sIdx[i]))>>)

\* what follows the last await of packet p of sector s: the next packet's
\* write, or after the last packet the registration of wait(`sector_${s}`)
Advance(i) ==
  IF pIdx[i] + 1 < Pkts(sFile[i], sFast[i], sIdx[i])
  THEN /\ Sess(i, "writePkt", sIdx[i], pIdx[i] + 1,
               <<EvPkt(sFile[i], sFast[i], sIdx[i], pIdx[i] + 1)>>)
       /\ UNCHANGED ackResolvers
  ELSE /\ ackResolvers' = Register(SectorKey(sIdx[i]), i)
       /\ Sess(i, "waitSector", sIdx[i], pIdx[i], <<EvReg(SectorKey(sIdx[i]))>>)

\* dataChar.writeValueWithoutResponse(pBuf) resolved
WritePktDone(i) ==
  /\ pc[i] = "writePkt"
  /\ IF ~sFast[i]
     THEN /\ Sess(i, "delay", sIdx[i], pIdx[i], <<>>)
          /\ UNCHANGED ackResolvers
     ELSE Advance(i)
  /\ UNCHANGED <<connStatus, otaStatus, progress, fastMode, file, bleSet, nSessions, sFile, sFast,
                 answered>>

\* the 12 ms timer of safe mode fired
DelayDone(i) ==
  /\ pc[i] = "delay"
  /\ Advance(i)
  /\ UNCHANGED <<connStatus, otaStatus, progress, fastMode, file, bleSet, nSessions, sFile, sFast,
                 answered>>

\* cmdChar.writeValueWithResponse(finish) resolved: wait('cmd_2') registers
WriteFinishDone(i) ==
  /\ pc[i] = "writeFinish"
  /\ ackResolvers' = Register(CmdKey(CMD_FINISH), i)
  /\ Sess(i, "waitFinish", sIdx[i], pIdx[i], <<EvReg(CmdKey(CMD_FINISH))>>)
  /\ UNCHANGED <<connStatus, otaStatus, progress, fastMode, file, bleSet, nSessions, sFile, sFast,
                 answered>>

\* an awaited transport write rejected
WriteFail(i) ==
  /\ pc[i] \in WritePcs
  /\ Catch(i, <<EvThrow>>)
  /\ UNCHANGED answered

\* file.arrayBuffer() resolved: the sector loop starts, or with no sector
\* the finish command is written
ReadDone(i) ==
  /\ pc[i] = "readFile"
  /\ IF TotalS(sFile[i]) > 0
     THEN Sess(i, "writePkt", 0, 0, <<EvPkt(sFile[i], sFast[i], 0, 0)>>)
     ELSE Sess(i, "writeFinish", 0, 0, <<EvCmd(CMD_FINISH)>>)
  /\ UNCHANGED <<connStatus, otaStatus, progress, fastMode, file, bleSet, ackResolvers,
                 nSessions, sFile, sFast, answered>>

\* file.arrayBuffer() rejected
ReadFail(i) ==
  /\ pc[i] = "readFile"
  /\ Catch(i, <<EvThrow>>)
  /\ UNCHANGED answered

\* variant of Timeout: the timer's callback does not reject the wait
TimeoutLost(i) ==
  /\ TimerArmed(i)
  /\ UNCHANGED vars

\* the 12 s timer of wait() fired: rej(new Error('ACK Timeout'))
Timeout(i) ==
  /\ TimerArmed(i)
  /\ Catch(i, <<EvTimeout(WaitKey(i))>>)
  /\ UNCHANGED answered

\* the resolver that session i registered under key is called with st:
\* clearTimeout(t); res(st), and runOta continues to its next await
Resolve(i, key, st) ==
  IF ~(TimerArmed(i) /\ WaitKey(i) = key)
  THEN UNCHANGED cvars
  ELSE CASE pc[i] = "waitStart" ->
              IF StartAccepted(st)
              THEN /\ Sess(i, "readFile", 0, 0, <<EvAck(key, st)>>)
                   /\ UNCHANGED <<connStatus, otaStatus, progress, fastMode, file, bleSet,
                                  ackResolvers, nSessions, sFile, sFast>>
              ELSE Catch(i, <<EvAck(key, st)>>)
         [] pc[i] = "waitSector" ->
              IF SectorAccepted(st)
              THEN /\ progress' = ProgressOf(sIdx[i], TotalS(sFile[i]))
                   /\ IF sIdx[i] + 1 < TotalS(sFile[i])
                      THEN Sess(i, "writePkt", sIdx[i] + 1, 0,
                                <<EvAck(key, st), EvProgress(progress'),
                                  EvPkt(sFile[i], sFast[i], sIdx[i] + 1, 0)>>)
                      ELSE Sess(i, "writeFinish", sIdx[i] + 1, 0,
                                <<EvAck(key, st), EvProgress(progress'), EvCmd(CMD_FINISH)>>)
                   /\ UNCHANGED <<connStatus, otaStatus, fastMode, file, bleSet,
                                  ackResolvers, nSessions, sFile, sFast>>
              ELSE Catch(i, <<EvAck(key, st)>>)
         [] pc[i] = "waitFinish" ->
              /\ Sess(i, "done", sIdx[i], pIdx[i], <<EvAck(key, st), EvSet("success")>>)
              /\ otaStatus' = "success"
              /\ UNCHANGED <<connStatus, progress, fastMode, file, bleSet,
                             ackResolvers, nSessions, sFile, sFast>>

\* handleAck(event, prefix) on a notification.  A command notification is
\* [ackType:u16 = a][originalCmd:u16 = b][status:u16 = c], a sector
\* notification is [sector:u16 = a][status:u16 = b]
handleAck(prefix, a, b, c) ==
  LET key == IF prefix = "cmd" THEN CmdKey(b) ELSE SectorKey(a)
      st == IF prefix = "cmd" THEN c ELSE b
  IN IF (prefix = "cmd" => a = ACK_TYPE) /\ key \in DOMAIN ackResolvers
     THEN Resolve(ackResolvers[key], key, st)
     ELSE UNCHANGED cvars

\* a notification arrives, whatever the remote has been asked
Notify(prefix, a, b, c) ==
  /\ handleAck(prefix, a, b, c)
  /\ UNCHANGED answered

\* notifications the remote can send
AckTypes == {ACK_TYPE, ACK_TYPE + 1}
Opcodes == {CMD_START, CMD_FINISH}
SectorIds == 0..TotalS(BigLen)

Next ==
  \/ \E len \in ImageSizes : SelectFile(len)
  \/ ToggleFast
  \/ ConnectStart
  \/ ConnectOk
  \/ ConnectFail
  \/ Disconnect
  \/ StartOta
  \/ \E i \in Sessions : WriteStartDone(i)
  \/ \E i \in Sessions : WritePktDone(i)
  \/ \E i \in Sessions : DelayDone(i)
  \/ \E i \in Sessions : WriteFinishDone(i)
  \/ \E i \in Sessions : WriteFail(i)
  \/ \E i \in Sessions : ReadDone(i)
  \/ \E i \in Sessions : ReadFail(i)
  \/ \E i \in Sessions : Timeout(i)
  \/ \E a \in AckTypes, b \in Opcodes, c \in Statuses : Notify("cmd", a, b, c)
  \/ \E a \in SectorIds, b \in Statuses : Notify("sector", a, b, 0)

Spec == Init /\ [][Next]_vars

TypeOK ==
  /\ connStatus \in {"idle", "busy", "ready"}
  /\ otaStatus \in {"idle", "running", "success", "failed"}
  /\ progress \in 0..100
  /\ file \in ImageSizes \cup {NoFile}
  /\ nSessions \in 0..MaxSessions
  /\ \A k \in DOMAIN ackResolvers : ackResolvers[k] \in 1..nSessions

\* ---- reading a session's log ----
Last(s) == s[Len(s)]
Has(i, e) == \E j \in DOMAIN log[i] : log[i][j] = e
IsWrite(e) == e.ev \in {"cmd", "pkt"}
PktsBefore(i, j) == {k \in 1..(j - 1) : log[i][k].ev = "pkt"}
MaxOf(S) == CHOOSE x \in S : \A y \in S : y <= x
SetCount(i) == Cardinality({j \in DOMAIN log[i] : log[i][j].ev = "set"})
Ended(i, st) == pc[i] = "done" /\ Len(log[i]) > 0 /\ Last(log[i]) = EvSet(st)
\* the wait of session i on key ended without status 0
WaitFailedAt(i, j, key) ==
  \/ log[i][j] = EvTimeout(key)
  \/ \E st \in Statuses \ {0} : log[i][j] = EvAck(key, st)

\* C1: within a session the data packets cover the image's bytes in order
\* from byte 0 without gap or overlap, each under the index of the sector its
\* bytes belong to, and a packet of a sector s >= 1 is written only after the
\* session's wait received a status-0 acknowledgement of sector s-1.
C1_SectorOrder ==
  \A i \in Sessions : \A j \in DOMAIN log[i] :
    log[i][j].ev = "pkt" =>
      LET e == log[i][j]
          prev == PktsBefore(i, j)
      IN /\ e.hi > e.lo
         /\ e.n = e.lo \div SECTOR_SIZE
         /\ e.lo = IF prev = {} THEN 0 ELSE log[i][MaxOf(prev)].hi
         /\ e.n >= 1 => \E k \in 1..(j - 1) : log[i][k] = EvAck(SectorKey(e.n - 1), 0)

C1_Witness ==
  \E i \in Sessions : \E j \in DOMAIN log[i] : log[i][j].ev = "pkt" /\ log[i][j].n = 1

\* C2: at most one invocation of runOta is between its start and its
\* terminal status at any time.
C2_OneSession == Cardinality({i \in Sessions : Running(i)}) <= 1

\* C3: a link disconnect during a running session sets the status to failed,
\* ends every running invocation and leaves none of their resolvers
\* registered in ackResolvers.
C3_LinkLost ==
  [][(Disconnect /\ \E i \in Sessions : Running(i)) =>
        /\ otaStatus' = "failed"
        /\ \A i \in Sessions : Running(i) =>
             /\ pc'[i] = "done"
             /\ \A k \in DOMAIN ackResolvers' : ackResolvers'[k] # i]_vars

\* C4: an invocation of runOta sets the terminal status (success or failed)
\* at most once, and exactly once by the time it has ended.
C4_OneOutcome ==
  \A i \in Sessions :
    /\ SetCount(i) <= 1
    /\ pc[i] = "done" <=> SetCount(i) = 1
    /\ pc[i] = "done" => (Ended(i, "success") \/ Ended(i, "failed"))

C4_Witness ==
  \E i, j \in Sessions : Ended(i, "success") /\ Ended(j, "failed")

\* C5: a session whose wait on cmd_1 ended with a non-zero status or with a
\* timeout has ended failed and has written no data packet and no finish
\* command.
C5_StartRejected ==
  \A i \in Sessions : \A j \in DOMAIN log[i] :
    WaitFailedAt(i, j, CmdKey(CMD_START)) =>
      /\ Ended(i, "failed")
      /\ \A k \in DOMAIN log[i] : log[i][k].ev # "pkt" /\ log[i][k] # EvCmd(CMD_FINISH)

C5_Witness ==
  \E i \in Sessions : Has(i, EvAck(CmdKey(CMD_START), 1)) /\ pc[i] = "done"

\* C6: the resolver of a command is registered before the command is
\* written, and the resolver of a sector before the sector's terminal packet
\* is written.
C6_RegisteredBeforeWrite ==
  \A i \in Sessions : \A j \in DOMAIN log[i] :
    /\ log[i][j].ev = "cmd" =>
         \E k \in 1..(j - 1) : log[i][k] = EvReg(CmdKey(log[i][j].n))
    /\ (log[i][j].ev = "pkt" /\ log[i][j].seq = SENTINEL) =>
         \E k \in 1..(j - 1) : log[i][k] = EvReg(SectorKey(log[i][j].n))

\* C7: ackResolvers holds entries only for waits that are still outstanding.
C7_OnlyOutstanding ==
  \A k \in DOMAIN ackResolvers :
    TimerArmed(ackResolvers[k]) /\ WaitKey(ackResolvers[k]) = k

\* C8: whenever the status is success the progress is 100.
C8_SuccessIsFull == otaStatus = "success" => progress = 100

\* C9: a session whose wait on cmd_2 was resolved with a non-zero status
\* ends failed, not success.
C9_FinishRejected ==
  \A i \in Sessions : \A j \in DOMAIN log[i] :
    (\E st \in Statuses \ {0} : log[i][j] = EvAck(CmdKey(CMD_FINISH), st)) =>
      Ended(i, "failed")

\* C10: a session one of whose sector waits ended with a timeout or a
\* non-zero status has ended failed with no write after that wait, and no
\* session writes the same command or data packet twice.
C10_NoRetry ==
  \A i \in Sessions :
    /\ \A j \in DOMAIN log[i] :
         (\E s \in SectorIds : WaitFailedAt(i, j, SectorKey(s))) =>
           /\ Ended(i, "failed")
           /\ \A k \in (j + 1)..Len(log[i]) : ~IsWrite(log[i][k])
    /\ \A j, k \in DOMAIN log[i] :
         (j < k /\ IsWrite(log[i][j])) => log[i][j] # log[i][k]

C10_Witness ==
  \E i \in Sessions :
    /\ Has(i, EvAck(SectorKey(0), 0))
    /\ Has(i, EvTimeout(SectorKey(1)))
    /\ pc[i] = "done"

\* C11: otaStatus only moves forward (idle, running, then success or failed),
\* except that any status may become failed and that a start request begins
\* a fresh run from a terminal status.
C11_ForwardOnly ==
  [][otaStatus' # otaStatus =>
       \/ otaStatus' = "failed"
       \/ otaStatus = "idle" /\ otaStatus' = "running"
       \/ otaStatus = "running" /\ otaStatus' = "success"
       \/ otaStatus \in {"success", "failed"} /\ otaStatus' = "running" /\ StartOta]_vars

\* session j registered a wait on key and that wait has ended
WaitOver(j, key) == Has(j, EvReg(key)) /\ ~(TimerArmed(j) /\ WaitKey(j) = key)

\* C12: a notification for a key on which a session's wait has already ended
\* (a late or duplicate answer to that session) changes nothing, also when
\* another session is waiting on the same key.
C12_LateAckSwallowed ==
  [][\A j \in Sessions :
       /\ \A a \in AckTypes, b \in Opcodes, c \in Statuses :
            (WaitOver(j, CmdKey(b)) /\ a = ACK_TYPE /\ handleAck("cmd", a, b, c))
              => UNCHANGED vars
       /\ \A a \in SectorIds, b \in Statuses :
            (WaitOver(j, SectorKey(a)) /\ handleAck("sector", a, b, 0))
              => UNCHANGED vars]_vars

\* C13: the resolver registered under the key of an outstanding wait is
\* that wait's own: a later registration never replaces it.
C13_OneWaiterPerKey ==
  \A i \in Sessions :
    TimerArmed(i) =>
      WaitKey(i) \in DOMAIN ackResolvers /\ ackResolvers[WaitKey(i)] = i

\* number of status-0 sector acknowledgements a session's waits received
AckedSectors(l) ==
  Cardinality({j \in DOMAIN l : l[j].ev = "ack" /\ l[j].key = "sector" /\ l[j].seq = 0})

\* C14: while a session with N >= 1 sectors runs, progress changes only in
\* the step in which the session receives a sector's status-0
\* acknowledgement, and after the k-th one it is round(100 * k / N), not
\* below its previous value, within 0..100 and 100 exactly when k = N.
C14_ProgressBySector ==
  [][\A i \in Sessions :
       (Running(i) /\ TotalS(sFile[i]) >= 1) =>
         LET k == AckedSectors(log'[i])
             N == TotalS(sFile[i])
         IN /\ progress' # progress => k = AckedSectors(log[i]) + 1
            /\ k # AckedSectors(log[i]) =>
                 /\ progress' = (200 * k + N) \div (2 * N)
                 /\ progress' >= progress
                 /\ progress' \in 0..100
                 /\ progress' = 100 <=> k = N]_vars

\* ---- framing: one run from its accepted start command to its end ----
\* image lengths around the packet and sector boundaries, and the 5000 bytes
\* of the two-sector example
FrameSizes ==
  {0, 1, SAFE_PSIZE, SAFE_PSIZE + 1, SmallLen, FAST_PSIZE, FAST_PSIZE + 1,
   SECTOR_SIZE - 1, SECTOR_SIZE, BigLen, 5000, 2 * SECTOR_SIZE}
FrameSectorIds == 0..2

\* run 1 right after wait('cmd_1') resolved with 0, in either mode
FrameInit ==
  /\ connStatus = "ready"
  /\ otaStatus = "running"
  /\ progress = 0
  /\ fastMode \in BOOLEAN
  /\ file \in FrameSizes
  /\ bleSet = TRUE
  /\ ackResolvers = [k \in {CmdKey(CMD_START)} |-> 1]
  /\ nSessions = 1
  /\ pc = [i \in Sessions |-> IF i = 1 THEN "readFile" ELSE "none"]
  /\ sFile = [i \in Sessions |-> IF i = 1 THEN file ELSE 0]
  /\ sFast = [i \in Sessions |-> IF i = 1 THEN fastMode ELSE FALSE]
  /\ sIdx = [i \in Sessions |-> 0]
  /\ pIdx = [i \in Sessions |-> 0]
  /\ log = [i \in Sessions |->
              IF i = 1
              THEN <<EvCmd(CMD_START), EvReg(CmdKey(CMD_START)), EvAck(CmdKey(CMD_START), 0)>>
              ELSE <<>>]
  /\ answered = {}

\* the run with every write completing and every acknowledgement accepting
FrameNext ==
  \/ ReadDone(1)
  \/ WritePktDone(1)
  \/ DelayDone(1)
  \/ WriteFinishDone(1)
  \/ \E a \in FrameSectorIds : Notify("sector", a, 0, 0)
  \/ Notify("cmd", ACK_TYPE, CMD_FINISH, 0)

FrameSpec == FrameInit /\ [][FrameNext]_vars

\* the data packets of sector s in a session's log, in write order
IsPktOf(e, s) == e.ev = "pkt" /\ e.n = s
PktsOf(i, s) == SelectSeq(log[i], LAMBDA e : IsPktOf(e, s))
\* the inner loop over the packets of sector s has ended
SectorDone(i, s) == Has(i, EvReg(SectorKey(s)))
\* the least n with n * SECTOR_SIZE >= len
NumSectors(len) ==
  CHOOSE n \in 0..(len \div SECTOR_SIZE + 1) :
    n * SECTOR_SIZE >= len /\ (n > 0 => (n - 1) * SECTOR_SIZE < len)

\* C15: the packets written for a sector carry bytes of that sector only,
\* continue each other from the sector's first byte to its last, carry at
\* most the payload size (244 in fast mode, 20 otherwise), are numbered
\* 0, 1, 2, ... while not terminal, and the sentinel 0xFF is carried by the
\* packet that ends the sector and by no other.
C15_SectorPackets ==
  \A i \in Sessions : \A s \in FrameSectorIds :
    LET q == PktsOf(i, s)
        ps == IF sFast[i] THEN FAST_PSIZE ELSE SAFE_PSIZE
        lo0 == s * SECTOR_SIZE
        hi0 == Min((s + 1) * SECTOR_SIZE, sFile[i])
    IN /\ \A k \in 1..Len(q) :
            /\ q[k].lo = IF k = 1 THEN lo0 ELSE q[k - 1].hi
            /\ q[k].hi > q[k].lo /\ q[k].hi - q[k].lo <= ps
            /\ q[k].hi <= hi0
            /\ q[k].seq = SENTINEL <=> q[k].hi = hi0
            /\ q[k].seq # SENTINEL => q[k].seq = k - 1
            /\ k < Len(q) => q[k].seq # SENTINEL
       /\ SectorDone(i, s) => (Len(q) >= 1 /\ q[Len(q)].seq = SENTINEL)

C15_Witness ==
  \E i \in Sessions :
    /\ ~sFast[i]
    /\ SectorDone(i, 1)
    /\ Len(PktsOf(i, 0)) = 205
    /\ Len(PktsOf(i, 1)) = 46

RECURSIVE SumLens(_, _)
\* the bytes carried by the packets of sectors 0..n-1 of session i
SumLens(i, n) ==
  IF n = 0 THEN 0
  ELSE LET q == PktsOf(i, n - 1)
       IN SumLens(i, n - 1) + (IF Len(q) = 0 THEN 0 ELSE q[Len(q)].hi - q[1].lo)

\* C16: a session that has passed its sector loop has transferred the sectors
\* 0..n-1 with n the least number of 4096-byte sectors that hold the image
\* (0 for an empty image); sector s covers [4096 s, min(4096 (s+1), L)), is
\* not empty, at most 4096 bytes long, and the lengths sum to L.
C16_Sectors ==
  \A i \in Sessions :
    Has(i, EvCmd(CMD_FINISH)) =>
      LET L == sFile[i]
          n == NumSectors(L)
      IN /\ \A s \in FrameSectorIds : (Len(PktsOf(i, s)) > 0) <=> s < n
         /\ AckedSectors(log[i]) = n
         /\ \A s \in 0..(n - 1) :
              LET q == PktsOf(i, s)
              IN /\ q[1].lo = SECTOR_SIZE * s
                 /\ q[Len(q)].hi = Min(SECTOR_SIZE * (s + 1), L)
                 /\ q[Len(q)].hi - q[1].lo \in 1..SECTOR_SIZE
         /\ SumLens(i, n) = L

C16_Witness ==
  \E i \in Sessions :
    Has(i, EvCmd(CMD_FINISH)) /\ sFile[i] = 5000 /\ Len(PktsOf(i, 1)) > 0

\* C17: the finish command is written only after the start command was
\* acknowledged with status 0 and every sector of the image was, in index
\* order, written whole and then acknowledged with status 0; a session that
\* ended success wrote the finish command and then had it acknowledged.
C17_SuccessPath ==
  \A i \in Sessions :
    /\ \A f \in DOMAIN log[i] :
         log[i][f] = EvCmd(CMD_FINISH) =>
           \E a \in 1..(f - 1) :
             /\ log[i][a] = EvAck(CmdKey(CMD_START), 0)
             /\ \A s \in 0..(NumSectors(sFile[i]) - 1) :
                  \E k \in (a + 1)..(f - 1) :
                    LET q == PktsOf(i, s)
                    IN /\ log[i][k] = EvAck(SectorKey(s), 0)
                       /\ Len(q) >= 1
                       /\ q[1].lo = s * SECTOR_SIZE
                       /\ \A x \in 2..Len(q) : q[x].lo = q[x - 1].hi
                       /\ q[Len(q)].hi = Min((s + 1) * SECTOR_SIZE, sFile[i])
                       /\ \A j \in DOMAIN log[i] :
                            IsPktOf(log[i][j], s) =>
                              /\ a < j /\ j < k
                              /\ s >= 1 =>
                                   \E k0 \in 1..(j - 1) : log[i][k0] = EvAck(SectorKey(s - 1), 0)
    /\ Ended(i, "success") =>
         \E f, g \in DOMAIN log[i] :
           /\ f < g
           /\ log[i][f] = EvCmd(CMD_FINISH)
           /\ log[i][g].ev = "ack" /\ log[i][g].key = "cmd" /\ log[i][g].n = CMD_FINISH

C17_Witness ==
  \E i \in Sessions : Ended(i, "success") /\ sFile[i] = BigLen

\* ---- liveness ----
\* the steps of invocation i that its promises and timers bring about
SessionStep(i) ==
  \/ WriteStartDone(i)
  \/ WritePktDone(i)
  \/ DelayDone(i)
  \/ WriteFinishDone(i)
  \/ WriteFail(i)
  \/ ReadDone(i)
  \/ ReadFail(i)
  \/ Timeout(i)

\* every awaited write and read settles and every timer fires
LiveSpec == Spec /\ \A i \in Sessions : WF_vars(SessionStep(i))

\* C18: every invocation of runOta that has started eventually ends, with
\* success or failed, whatever notifications arrive.
C18_Terminates ==
  \A i \in Sessions : Running(i) ~> (Ended(i, "success") \/ Ended(i, "failed"))

C18_Witness ==
  \E i \in Sessions : Ended(i, "failed") /\ Has(i, EvTimeout(CmdKey(CMD_FINISH)))

\* C20: a running session keeps the mode it captured when it started: each
\* of its packets carries the payload size of that mode (or what is left of
\* the sector) and it pauses after a packet's write exactly in safe mode,
\* whatever fastMode has become.
C20_FixedConfig ==
  [][\A i \in Sessions :
       /\ (pc[i] = "none" /\ pc'[i] # "none") => sFast'[i] = fastMode
       /\ Running(i) =>
            /\ sFast'[i] = sFast[i]
            /\ (Len(log'[i]) > Len(log[i]) /\ Last(log'[i]).ev = "pkt") =>
                 LET e == Last(log'[i])
                     ps == IF sFast[i] THEN FAST_PSIZE ELSE SAFE_PSIZE
                     end == Min((e.n + 1) * SECTOR_SIZE, sFile[i])
                 IN e.hi - e.lo = Min(ps, end - e.lo)
            /\ (pc[i] = "writePkt" /\ pc'[i] # "done"
                  /\ <<pc'[i], pIdx'[i]>> # <<pc[i], pIdx[i]>>) =>
                 (pc'[i] = "delay" <=> ~sFast[i])]_vars

C20_Witness ==
  \E i \in Sessions :
    /\ sFast[i] # fastMode
    /\ pc[i] \in {"writePkt", "delay"}
    /\ pIdx[i] >= 1

\* ---- the remote that answers every request once ----
\* the write of the terminal packet of sector s of session i has completed
SectorSent(i, s) ==
  /\ pc[i] \in {"delay", "waitSector"}
  /\ sIdx[i] = s
  /\ pIdx[i] + 1 = Pkts(sFile[i], sFast[i], s)

\* the write of command op of session i has completed
CmdSent(i, op) ==
  \/ op = CMD_START /\ pc[i] = "waitStart"
  \/ op = CMD_FINISH /\ pc[i] = "waitFinish"

\* the remote answers the completed sector s of session i with status 0, once
AnswerSector(i, s) ==
  /\ SectorSent(i, s)
  /\ <<i, SectorKey(s)>> \notin answered
  /\ answered' = answered \cup {<<i, SectorKey(s)>>}
  /\ handleAck("sector", s, 0, 0)

\* the remote answers command op of session i with status 0, once
AnswerCmd(i, op) ==
  /\ CmdSent(i, op)
  /\ <<i, CmdKey(op)>> \notin answered
  /\ answered' = answered \cup {<<i, CmdKey(op)>>}
  /\ handleAck("cmd", ACK_TYPE, op, 0)

\* the 12 s timer fires only on a wait whose answer has already been delivered:
\* every answer comes well within the 12 s
AnsweredTimeout(i) ==
  /\ <<i, WaitKey(i)>> \in answered
  /\ Timeout(i)

\* the link stays up, every write and the file read succeed, and the only
\* notifications are the remote's answers
RemoteNext ==
  \/ \E len \in ImageSizes : SelectFile(len)
  \/ ToggleFast
  \/ ConnectStart
  \/ ConnectOk
  \/ StartOta
  \/ \E i \in Sessions : WriteStartDone(i)
  \/ \E i \in Sessions : WritePktDone(i)
  \/ \E i \in Sessions : DelayDone(i)
  \/ \E i \in Sessions : WriteFinishDone(i)
  \/ \E i \in Sessions : ReadDone(i)
  \/ \E i \in Sessions, s \in SectorIds : AnswerSector(i, s)
  \/ \E i \in Sessions, op \in Opcodes : AnswerCmd(i, op)
  \/ \E i \in Sessions : AnsweredTimeout(i)

RemoteSpec == Init /\ [][RemoteNext]_vars

\* C19: when the link stays up and the remote answers the start command,
\* every completely written sector and the finish command with exactly one
\* status-0 acknowledgement, delivered at any moment after the write it
\* answers has completed, every answer reaches the session that asked and
\* the session ends in success, in safe mode as in fast mode
C19_NoAckLost ==
  \A i \in Sessions :
    /\ \A k \in {CmdKey(op) : op \in Opcodes} \cup {SectorKey(s) : s \in SectorIds} :
         <<i, k>> \in answered => Has(i, EvAck(k, 0))
    /\ pc[i] = "done" => Ended(i, "success")

\* the same, of the sessions in fast mode only
C19_FastOnly ==
  \A i \in Sessions :
    sFast[i] =>
      /\ \A k \in {CmdKey(op) : op \in Opcodes} \cup {SectorKey(s) : s \in SectorIds} :
           <<i, k>> \in answered => Has(i, EvAck(k, 0))
      /\ pc[i] = "done" => Ended(i, "success")

====
